---- MODULE Spec2Model ----
(***************************************************************************)
(* Startup configuration resolution of the LLDAP server                    *)
(* (server/src/infra/configuration.rs): the layered sources merged by      *)
(* init, the command-line override sources, ConfigurationBuilder::build    *)
(* and the load-or-generate handling of the server key file.               *)
(***************************************************************************)
EXTENDS Integers, Sequences, FiniteSets, TLC

VARIABLES
    pc,         \* position of the running operation
    fs,         \* the file system: path -> None | Some(bytes)
    fs0,        \* the file system when the running operation was called
    toml,       \* the configuration file read by Toml::file
    env,        \* the LLDAP_-prefixed environment variables
    overrides,  \* the override source the operation was called with
    config,     \* init's local config / the draft given to override_config
    draft,      \* config as it was before override_config
    calls,      \* the invocations of get_server_setup, in order
    stdout,     \* the lines printed so far
    arg,        \* the argument of a direct build / get_server_setup call
    first,      \* path -> the first ServerSetup get_server_setup returned for it
    result      \* what the operation returned

vars == <<pc, fs, fs0, toml, env, overrides, config, draft, calls, stdout,
          arg, first, result>>

-----------------------------------------------------------------------------
(* Bounds *)

\* number of distinct values the random generator can produce
NumKeys == 2
\* number of options an override source of SpecOverride carries at most
MaxSet == 1
\* number of fields in which a draft of SpecOverride differs from the defaults
MaxDiff == 1

-----------------------------------------------------------------------------
(* Rust's Option, Result *)

None == <<>>
Some(v) == <<v>>
Unwrap(o) == o[1]

Ok(v) == [ok |-> TRUE, v |-> v]
Err(e) == [ok |-> FALSE, err |-> e]
NoResult == [ok |-> FALSE, err |-> "not returned"]
Panic == [ok |-> FALSE, err |-> "panic"]

-----------------------------------------------------------------------------
(* Configuration and MailOptions *)

MailFields ==
    {"smtp_options.enable_password_reset", "smtp_options.from",
     "smtp_options.reply_to", "smtp_options.server", "smtp_options.port",
     "smtp_options.user", "smtp_options.password",
     "smtp_options.tls_required"}

Fields ==
    {"ldap_port", "ldaps_port", "http_port", "jwt_secret", "ldap_base_dn",
     "ldap_user_dn", "ldap_user_pass", "database_url", "verbose", "key_file"}
    \cup MailFields

\* the #[builder(default = ...)] value of every field
MailOptionsDefault ==
    [f \in MailFields |->
        CASE f = "smtp_options.enable_password_reset" -> FALSE
          [] f = "smtp_options.from" -> None
          [] f = "smtp_options.reply_to" -> None
          [] f = "smtp_options.server" -> "localhost"
          [] f = "smtp_options.port" -> 587
          [] f = "smtp_options.user" -> "admin"
          [] f = "smtp_options.password" -> ""
          [] f = "smtp_options.tls_required" -> TRUE]

BuilderDefault ==
    [f \in Fields |->
        CASE f = "ldap_port" -> 3890
          [] f = "ldaps_port" -> 6360
          [] f = "http_port" -> 17170
          [] f = "jwt_secret" -> "secretjwtsecret"
          [] f = "ldap_base_dn" -> "dc=example,dc=com"
          [] f = "ldap_user_dn" -> "admin"
          [] f = "ldap_user_pass" -> "password"
          [] f = "database_url" -> "sqlite://users.db?mode=rwc"
          [] f = "verbose" -> FALSE
          [] f = "key_file" -> "server_key"
          [] OTHER -> MailOptionsDefault[f]]

\* a second value of every field, different from its default
OtherValue ==
    [f \in Fields |->
        CASE f = "ldap_port" -> 389
          [] f = "ldaps_port" -> 636
          [] f = "http_port" -> 8080
          [] f = "jwt_secret" -> "s3cr3t"
          [] f = "ldap_base_dn" -> "dc=lldap,dc=org"
          [] f = "ldap_user_dn" -> "root"
          [] f = "ldap_user_pass" -> "hunter2"
          [] f = "database_url" -> "sqlite://other.db"
          [] f = "verbose" -> TRUE
          [] f = "key_file" -> "custom_key"
          [] f = "smtp_options.enable_password_reset" -> TRUE
          [] f = "smtp_options.from" -> Some("lldap@example.com")
          [] f = "smtp_options.reply_to" -> Some("noreply@example.com")
          [] f = "smtp_options.server" -> "smtp.example.com"
          [] f = "smtp_options.port" -> 25
          [] f = "smtp_options.user" -> "mailer"
          [] f = "smtp_options.password" -> "mailpw"
          [] f = "smtp_options.tls_required" -> FALSE]

\* the values a field takes here: every port can take four values, so that
\* the defaults, the file, the environment and the options can all differ
FieldValues(f) ==
    {BuilderDefault[f], OtherValue[f]}
    \cup (IF f \in {"ldap_port", "ldaps_port", "http_port", "smtp_options.port"}
          THEN {7070, 9090} ELSE {})

Paths == FieldValues("key_file")

-----------------------------------------------------------------------------
(* ServerSetup and its serialized form (lldap_auth::opaque / opaque-ke) *)

public_key(private) == private + NumKeys

\* ServerSetup::new(&mut rng): every value the generator can produce
ServerSetup_new ==
    { [oprf_seed |-> k, keypair |-> [private |-> k, public |-> public_key(k)]] :
        k \in 1..NumKeys }

\* ServerSetup::serialize: the seed and the private key; the public key is
\* recomputed on load
ServerSetup_serialize(s) == <<s.oprf_seed, s.keypair.private>>

ServerSetup_deserialize(bytes) ==
    IF Len(bytes) = 2 /\ bytes[1] \in 1..NumKeys /\ bytes[2] \in 1..NumKeys
    THEN Ok([oprf_seed |-> bytes[1],
             keypair |-> [private |-> bytes[2], public |-> public_key(bytes[2])]])
    ELSE Err("invalid server setup")

\* bytes of a key file that is not a serialized ServerSetup
CorruptBytes == <<0>>

-----------------------------------------------------------------------------
(* get_server_setup: the outcomes of one call, each with the file system it  *)
(* leaves behind                                                             *)

\* get_server_setup that never reads the file it finds: it returns a newly
\* generated value and leaves the file alone
get_server_setup_ignoring_file(f, file_path) ==
    IF f[file_path] # None
    THEN { [result |-> Ok(s), fs |-> f] : s \in ServerSetup_new }
    ELSE { [result |-> Ok(s),
            fs |-> [f EXCEPT ![file_path] = Some(ServerSetup_serialize(s))]] :
              s \in ServerSetup_new }

\* get_server_setup without the path.exists() test: it always generates and
\* writes
get_server_setup_overwriting(f, file_path) ==
    { [result |-> Ok(s),
       fs |-> [f EXCEPT ![file_path] = Some(ServerSetup_serialize(s))]] :
         s \in ServerSetup_new }

get_server_setup(f, file_path) ==
    IF f[file_path] # None
    THEN \* path.exists(): std::fs::read, then ServerSetup::deserialize
         { [result |-> Err("Could not read key file"), fs |-> f],
           [result |-> ServerSetup_deserialize(Unwrap(f[file_path])), fs |-> f] }
    ELSE \* generate, std::fs::write
         { [result |-> Ok(s),
            fs |-> [f EXCEPT ![file_path] = Some(ServerSetup_serialize(s))]] :
              s \in ServerSetup_new }
         \cup
         \* the write fails, before or after the file was created
         { [result |-> Err("Could not write the generated server setup"),
            fs |-> g] : g \in {f, [f EXCEPT ![file_path] = Some(<<>>)]} }

-----------------------------------------------------------------------------
(* ConfigurationBuilder *)

BuilderFields == Fields \cup {"server_setup"}

\* ConfigurationBuilder::default(): no field set
ConfigurationBuilder_default == [f \in BuilderFields |-> None]

validate(builder) ==
    IF builder["server_setup"] = None
    THEN Err("Don't use private_build, use build instead")
    ELSE Ok(TRUE)

private_build(builder) ==
    IF ~validate(builder).ok
    THEN validate(builder)
    ELSE Ok([f \in BuilderFields |->
                IF f = "server_setup" THEN builder[f]
                ELSE IF builder[f] = None THEN BuilderDefault[f]
                ELSE Unwrap(builder[f])])

\* ConfigurationBuilder::build: the outcomes, each with the file system left
build(f, builder) ==
    LET key_file == IF builder["key_file"] = None THEN "server_key"
                    ELSE Unwrap(builder["key_file"])
    IN { [result |-> IF o.result.ok
                     THEN private_build(
                            [builder EXCEPT !["server_setup"] = Some(o.result.v)])
                     ELSE o.result,
          fs |-> o.fs,
          path |-> key_file] : o \in get_server_setup(f, key_file) }

-----------------------------------------------------------------------------
(* figment: a layer is a dictionary from field names to loosely typed values *)

\* a figment Value: its variant and its payload
Value(kind, v) == <<kind, v>>
Kind(val) == val[1]
Payload(val) == val[2]

PortFields == {"ldap_port", "ldaps_port", "http_port", "smtp_options.port"}
BoolFields == {"verbose", "smtp_options.enable_password_reset",
               "smtp_options.tls_required"}
MailboxFields == {"smtp_options.from", "smtp_options.reply_to"}

\* serde::Serialize of one field of Configuration
to_value(f, x) ==
    CASE f \in PortFields -> Value("Num", x)
      [] f \in BoolFields -> Value("Bool", x)
      [] f \in MailboxFields ->
            IF x = None THEN Value("Empty", None) ELSE Value("String", Unwrap(x))
      [] OTHER -> Value("String", x)

\* serde::Deserialize of one field of Configuration
from_value(f, val) ==
    CASE f \in PortFields ->
            IF Kind(val) = "Num" /\ Payload(val) \in 0..65535
            THEN Ok(Payload(val)) ELSE Err("invalid type")
      [] f \in BoolFields ->
            IF Kind(val) = "Bool" THEN Ok(Payload(val)) ELSE Err("invalid type")
      [] f \in MailboxFields ->
            IF Kind(val) = "Empty" THEN Ok(None)
            ELSE IF Kind(val) = "String" THEN Ok(Some(Payload(val)))
            ELSE Err("invalid type")
      [] OTHER ->
            IF Kind(val) = "String" THEN Ok(Payload(val)) ELSE Err("invalid type")

\* Serialized::defaults(config): server_setup is #[serde(skip)]
Serialized_defaults(c) == [f \in Fields |-> to_value(f, c[f])]

\* a merge in which the earlier provider keeps its keys (Figment::join)
merge_keeping_earlier(figment, provider) ==
    [k \in DOMAIN figment \cup DOMAIN provider |->
        IF k \in DOMAIN figment THEN figment[k] ELSE provider[k]]

\* Figment::merge: the keys of the later provider replace those of the earlier
merge(figment, provider) ==
    [k \in DOMAIN figment \cup DOMAIN provider |->
        IF k \in DOMAIN provider THEN provider[k] ELSE figment[k]]

\* Toml::file: a missing file is an empty provider, a malformed one an error
NoFile == "no file"
Malformed == "malformed"
EmptyDict == [k \in {} |-> None]

Toml_file(file) ==
    IF file.state = NoFile THEN Ok(EmptyDict)
    ELSE IF file.state = Malformed THEN Err("TOML parse error")
    ELSE Ok(file.dict)

\* Figment::extract into Configuration; the skipped server_setup is None
extract(figment) ==
    IF \E f \in Fields : ~from_value(f, figment[f]).ok
    THEN Err("invalid type")
    ELSE Ok([f \in BuilderFields |->
                IF f = "server_setup" THEN None
                ELSE from_value(f, figment[f]).v])

-----------------------------------------------------------------------------
(* ConfigOverrider: the override sources of infra::cli *)

\* an override that assigns the flag instead of only raising it
override_config_GeneralConfigOpts_assigning(self, c) ==
    [c EXCEPT !["verbose"] = self.verbose]

override_config_GeneralConfigOpts(self, c) ==
    IF self.verbose THEN [c EXCEPT !["verbose"] = TRUE] ELSE c

\* an override that writes smtp_user into the password as well
override_config_SmtpOpts_user_as_password(self, c) ==
    LET c1 == IF self.smtp_from # None
              THEN [c EXCEPT !["smtp_options.from"] = Some(Unwrap(self.smtp_from))]
              ELSE c
        c2 == IF self.smtp_reply_to # None
              THEN [c1 EXCEPT !["smtp_options.reply_to"] =
                                  Some(Unwrap(self.smtp_reply_to))]
              ELSE c1
        c3 == IF self.smtp_server # None
              THEN [c2 EXCEPT !["smtp_options.server"] = Unwrap(self.smtp_server)]
              ELSE c2
        c4 == IF self.smtp_port # None
              THEN [c3 EXCEPT !["smtp_options.port"] = Unwrap(self.smtp_port)]
              ELSE c3
        c5 == IF self.smtp_user # None
              THEN [c4 EXCEPT !["smtp_options.user"] = Unwrap(self.smtp_user),
                              !["smtp_options.password"] = Unwrap(self.smtp_user)]
              ELSE c4
        c6 == IF self.smtp_password # None
              THEN [c5 EXCEPT !["smtp_options.password"] =
                                  Unwrap(self.smtp_password)]
              ELSE c5
    IN IF self.smtp_tls_required # None
       THEN [c6 EXCEPT !["smtp_options.tls_required"] =
                           Unwrap(self.smtp_tls_required)]
       ELSE c6

override_config_SmtpOpts(self, c) ==
    LET c1 == IF self.smtp_from # None
              THEN [c EXCEPT !["smtp_options.from"] = Some(Unwrap(self.smtp_from))]
              ELSE c
        c2 == IF self.smtp_reply_to # None
              THEN [c1 EXCEPT !["smtp_options.reply_to"] =
                                  Some(Unwrap(self.smtp_reply_to))]
              ELSE c1
        c3 == IF self.smtp_server # None
              THEN [c2 EXCEPT !["smtp_options.server"] = Unwrap(self.smtp_server)]
              ELSE c2
        c4 == IF self.smtp_port # None
              THEN [c3 EXCEPT !["smtp_options.port"] = Unwrap(self.smtp_port)]
              ELSE c3
        c5 == IF self.smtp_user # None
              THEN [c4 EXCEPT !["smtp_options.user"] = Unwrap(self.smtp_user)]
              ELSE c4
        c6 == IF self.smtp_password # None
              THEN [c5 EXCEPT !["smtp_options.password"] =
                                  Unwrap(self.smtp_password)]
              ELSE c5
    IN IF self.smtp_tls_required # None
       THEN [c6 EXCEPT !["smtp_options.tls_required"] =
                           Unwrap(self.smtp_tls_required)]
       ELSE c6

override_config_RunOpts(self, c) ==
    LET c0 == override_config_GeneralConfigOpts(self.general_config, c)
        c1 == IF self.ldap_port # None
              THEN [c0 EXCEPT !["ldap_port"] = Unwrap(self.ldap_port)] ELSE c0
        c2 == IF self.ldaps_port # None
              THEN [c1 EXCEPT !["ldaps_port"] = Unwrap(self.ldaps_port)] ELSE c1
        c3 == IF self.http_port # None
              THEN [c2 EXCEPT !["http_port"] = Unwrap(self.http_port)] ELSE c2
    IN override_config_SmtpOpts(self.smtp_opts, c3)

override_config_TestEmailOpts(self, c) ==
    override_config_SmtpOpts(self.smtp_opts,
        override_config_GeneralConfigOpts(self.general_config, c))

\* dispatch on the implementor of ConfigOverrider
override_config(self, c) ==
    CASE self.type = "RunOpts" -> override_config_RunOpts(self, c)
      [] self.type = "TestEmailOpts" -> override_config_TestEmailOpts(self, c)
      [] self.type = "GeneralConfigOpts" -> override_config_GeneralConfigOpts(self, c)
      [] self.type = "SmtpOpts" -> override_config_SmtpOpts(self, c)

-----------------------------------------------------------------------------
(* The inputs: key files, layers and override sources *)

\* what a path can hold before the server starts
KeyFiles ==
    {None, Some(CorruptBytes)}
    \cup { Some(ServerSetup_serialize(s)) : s \in ServerSetup_new }

FileSystems == [Paths -> KeyFiles]

\* the values a TOML file or an environment variable can give a field
LayerValues(f) ==
    IF f \in MailboxFields THEN {to_value(f, OtherValue[f])}
    ELSE { to_value(f, x) : x \in FieldValues(f) }

\* a value that does not deserialize into the field
BadValue(f) ==
    IF f \in PortFields \cup BoolFields THEN Value("String", "abc")
    ELSE Value("Num", 1234)

Dict(f, v) == [k \in {f} |-> v]

\* the configuration files that set at most the field f
TomlFiles(f) ==
    {[state |-> NoFile, dict |-> EmptyDict],
     [state |-> Malformed, dict |-> EmptyDict],
     [state |-> "parsed", dict |-> EmptyDict]}
    \cup { [state |-> "parsed", dict |-> Dict(f, v)] : v \in LayerValues(f) }

\* the environments that set at most the field f
Envs(f) ==
    {EmptyDict} \cup { Dict(f, v) : v \in LayerValues(f) \cup {BadValue(f)} }

SmtpOptNames ==
    {"smtp_from", "smtp_reply_to", "smtp_server", "smtp_port", "smtp_user",
     "smtp_password", "smtp_tls_required"}

SourceTypes == {"RunOpts", "TestEmailOpts", "GeneralConfigOpts", "SmtpOpts"}

\* the options of each override source
OptionNames(type) ==
    CASE type = "RunOpts" ->
            {"verbose", "ldap_port", "ldaps_port", "http_port"} \cup SmtpOptNames
      [] type = "TestEmailOpts" -> {"verbose"} \cup SmtpOptNames
      [] type = "GeneralConfigOpts" -> {"verbose"}
      [] type = "SmtpOpts" -> SmtpOptNames

\* the field of Configuration an option is written to
OptionTarget(name) ==
    CASE name = "smtp_from" -> "smtp_options.from"
      [] name = "smtp_reply_to" -> "smtp_options.reply_to"
      [] name = "smtp_server" -> "smtp_options.server"
      [] name = "smtp_port" -> "smtp_options.port"
      [] name = "smtp_user" -> "smtp_options.user"
      [] name = "smtp_password" -> "smtp_options.password"
      [] name = "smtp_tls_required" -> "smtp_options.tls_required"
      [] OTHER -> name

\* the values an option can carry when it is given
OptionValues(name) ==
    IF name = "verbose" THEN {TRUE}
    ELSE IF OptionTarget(name) \in MailboxFields
         THEN {Unwrap(OtherValue[OptionTarget(name)]), "postmaster@example.com"}
         ELSE FieldValues(OptionTarget(name))

GeneralConfigOpts_empty == [config_file |-> "lldap_config.toml", verbose |-> FALSE]

SmtpOpts_empty == [n \in SmtpOptNames |-> None]

\* the source of the given type with no option given
EmptySource(type) ==
    CASE type = "RunOpts" ->
            [type |-> type, general_config |-> GeneralConfigOpts_empty,
             ldap_port |-> None, ldaps_port |-> None, http_port |-> None,
             smtp_opts |-> SmtpOpts_empty]
      [] type = "TestEmailOpts" ->
            [type |-> type, general_config |-> GeneralConfigOpts_empty,
             smtp_opts |-> SmtpOpts_empty]
      [] type = "GeneralConfigOpts" ->
            [type |-> type, config_file |-> "lldap_config.toml", verbose |-> FALSE]
      [] type = "SmtpOpts" ->
            [n \in SmtpOptNames \cup {"type"} |->
                IF n = "type" THEN type ELSE None]

\* the source o with the option name given as v
SetOption(o, name, v) ==
    CASE name = "verbose" ->
            IF o.type = "GeneralConfigOpts" THEN [o EXCEPT !.verbose = v]
            ELSE [o EXCEPT !.general_config.verbose = v]
      [] name \in SmtpOptNames ->
            IF o.type = "SmtpOpts" THEN [o EXCEPT ![name] = Some(v)]
            ELSE [o EXCEPT !.smtp_opts[name] = Some(v)]
      [] OTHER -> [o EXCEPT ![name] = Some(v)]

\* whether the source o carries an explicit value for the option name
IsGiven(o, name) ==
    CASE name = "verbose" ->
            IF o.type = "GeneralConfigOpts" THEN o.verbose
            ELSE o.general_config.verbose
      [] name \in SmtpOptNames ->
            IF o.type = "SmtpOpts" THEN o[name] # None
            ELSE o.smtp_opts[name] # None
      [] OTHER -> o[name] # None

GivenOptions(o) == { n \in OptionNames(o.type) : IsGiven(o, n) }

\* the sources of a type that give at most n of the options in names
RECURSIVE SourcesOf(_, _, _)
SourcesOf(type, names, n) ==
    IF n = 0 THEN {EmptySource(type)}
    ELSE LET smaller == SourcesOf(type, names, n - 1)
         IN smaller \cup
            UNION { UNION { { SetOption(o, name, v) : v \in OptionValues(name) } :
                              name \in (names \cap OptionNames(type)) \ GivenOptions(o) } :
                      o \in smaller }

\* the options written to the field f
OptionsFor(f) == { n \in OptionNames("RunOpts") : OptionTarget(n) = f }

\* the override sources init accepts (TopLevelCommandOpts + ConfigOverrider)
\* that give at most the option written to the field f
TopLevelSources(f) ==
    SourcesOf("RunOpts", OptionsFor(f), 1)
    \cup SourcesOf("TestEmailOpts", OptionsFor(f), 1)

-----------------------------------------------------------------------------
(* One start of the server: init, statement by statement *)

Loading == "Loading configuration from lldap_config.toml"
ConfigurationDump == "Configuration: ..."
JwtWarning == "WARNING: Default JWT secret used!"
PasswordWarning == "WARNING: Unsecure default admin password is used."

\* one invocation of get_server_setup, as recorded in calls
Call(f, file_path) == [path |-> file_path, existed |-> f[file_path] # None]

Idle ==
    /\ toml = [state |-> NoFile, dict |-> EmptyDict]
    /\ env = EmptyDict
    /\ calls = <<>>
    /\ stdout = <<>>
    /\ arg = None
    /\ first = [p \in Paths |-> None]
    /\ result = NoResult

Init ==
    /\ pc = "start"
    /\ fs \in FileSystems
    /\ fs0 = fs
    /\ overrides = EmptySource("RunOpts")
    /\ config = None
    /\ draft = None
    /\ Idle

\* init is called: the process has a configuration file, an environment and
\* command-line options; lines 203-208
init_call ==
    /\ pc = "start"
    /\ \E f \in Fields :
         /\ toml' \in TomlFiles(f)
         /\ env' \in Envs(f)
         /\ overrides' \in TopLevelSources(f)
    /\ stdout' = <<Loading>>
    /\ pc' = "init_figment"
    /\ UNCHANGED <<fs, fs0, config, draft, calls, arg, first, result>>

\* lines 210-215: the defaults come from ConfigurationBuilder::default()
\* .build().unwrap(), then the file and the environment are merged and the
\* result is extracted
init_figment ==
    /\ pc = "init_figment"
    /\ \E o \in build(fs, ConfigurationBuilder_default) :
         /\ fs' = o.fs
         /\ calls' = Append(calls, Call(fs, o.path))
         /\ IF ~o.result.ok
            THEN /\ pc' = "init_panicked"
                 /\ result' = Panic
                 /\ config' = config
            ELSE LET file == Toml_file(toml)
                     figment == merge(merge(Serialized_defaults(o.result.v),
                                            IF file.ok THEN file.v ELSE EmptyDict),
                                      env)
                     extracted == IF file.ok THEN extract(figment) ELSE file
                 IN IF extracted.ok
                    THEN /\ pc' = "init_override"
                         /\ config' = extracted.v
                         /\ result' = result
                    ELSE /\ pc' = "init_failed"
                         /\ result' = extracted
                         /\ config' = config
    /\ UNCHANGED <<fs0, toml, env, overrides, draft, stdout, arg, first>>

\* lines 217-220
init_override ==
    /\ pc = "init_override"
    /\ draft' = config
    /\ config' = override_config(overrides, config)
    /\ stdout' = IF config'["verbose"] THEN Append(stdout, ConfigurationDump)
                 ELSE stdout
    /\ pc' = "init_server_setup"
    /\ UNCHANGED <<fs, fs0, toml, env, overrides, calls, arg, first, result>>

\* line 221 without the assignment to config.server_setup
init_server_setup_unattached ==
    /\ pc = "init_server_setup"
    /\ \E o \in get_server_setup(fs, config["key_file"]) :
         /\ fs' = o.fs
         /\ calls' = Append(calls, Call(fs, config["key_file"]))
         /\ config' = config
         /\ IF o.result.ok
            THEN /\ pc' = "init_warnings"
                 /\ result' = result
            ELSE /\ pc' = "init_failed"
                 /\ result' = o.result
    /\ UNCHANGED <<fs0, toml, env, overrides, draft, stdout, arg, first>>

\* line 221
init_server_setup ==
    /\ pc = "init_server_setup"
    /\ \E o \in get_server_setup(fs, config["key_file"]) :
         /\ fs' = o.fs
         /\ calls' = Append(calls, Call(fs, config["key_file"]))
         /\ IF o.result.ok
            THEN /\ config' = [config EXCEPT !["server_setup"] = Some(o.result.v)]
                 /\ pc' = "init_warnings"
                 /\ result' = result
            ELSE /\ config' = config
                 /\ pc' = "init_failed"
                 /\ result' = o.result
    /\ UNCHANGED <<fs0, toml, env, overrides, draft, stdout, arg, first>>

\* lines 222-228 with the warnings printed only when verbose is set
init_return_quiet ==
    /\ pc = "init_warnings"
    /\ LET out1 == IF config["verbose"] /\ config["jwt_secret"] = "secretjwtsecret"
                   THEN Append(stdout, JwtWarning) ELSE stdout
       IN stdout' = IF config["verbose"] /\ config["ldap_user_pass"] = "password"
                    THEN Append(out1, PasswordWarning) ELSE out1
    /\ result' = Ok(config)
    /\ pc' = "init_done"
    /\ UNCHANGED <<fs, fs0, toml, env, overrides, config, draft, calls, arg, first>>

\* lines 222-228
init_return ==
    /\ pc = "init_warnings"
    /\ LET out1 == IF config["jwt_secret"] = "secretjwtsecret"
                   THEN Append(stdout, JwtWarning) ELSE stdout
       IN stdout' = IF config["ldap_user_pass"] = "password"
                    THEN Append(out1, PasswordWarning) ELSE out1
    /\ result' = Ok(config)
    /\ pc' = "init_done"
    /\ UNCHANGED <<fs, fs0, toml, env, overrides, config, draft, calls, arg, first>>

\* ConfigurationBuilder::build called on a builder with or without key_file
call_build ==
    /\ pc = "start"
    /\ \E k \in {None} \cup { Some(p) : p \in Paths } :
         /\ arg' = k
         /\ \E o \in build(fs, [ConfigurationBuilder_default EXCEPT !["key_file"] = k]) :
              /\ fs' = o.fs
              /\ calls' = <<Call(fs, o.path)>>
              /\ result' = o.result
    /\ pc' = "build_returned"
    /\ UNCHANGED <<fs0, toml, env, overrides, config, draft, stdout, first>>

\* Configuration::default(): ConfigurationBuilder::default().build().unwrap()
call_default ==
    /\ pc = "start"
    /\ \E o \in build(fs, ConfigurationBuilder_default) :
         /\ fs' = o.fs
         /\ calls' = <<Call(fs, o.path)>>
         /\ result' = IF o.result.ok THEN o.result ELSE Panic
    /\ pc' = "default_returned"
    /\ UNCHANGED <<fs0, toml, env, overrides, config, draft, stdout, arg, first>>

Next ==
    \/ init_call
    \/ init_figment
    \/ init_override
    \/ init_server_setup
    \/ init_return
    \/ call_build
    \/ call_default

Spec == Init /\ [][Next]_vars

-----------------------------------------------------------------------------
(* The key material manager used on its own, call after call *)

\* number of get_server_setup calls in one behaviour
MaxCalls == 3

InitKeys ==
    /\ pc = "keys"
    /\ fs \in FileSystems
    /\ fs0 = fs
    /\ overrides = EmptySource("RunOpts")
    /\ config = None
    /\ draft = None
    /\ Idle

call_get_server_setup ==
    /\ pc = "keys"
    /\ Len(calls) < MaxCalls
    /\ \E file_path \in Paths :
         \E o \in get_server_setup(fs, file_path) :
            /\ arg' = Some(file_path)
            /\ fs0' = fs
            /\ fs' = o.fs
            /\ calls' = Append(calls, Call(fs, file_path))
            /\ result' = o.result
            /\ first' = IF o.result.ok /\ first[file_path] = None
                        THEN [first EXCEPT ![file_path] = Some(o.result.v)]
                        ELSE first
    /\ UNCHANGED <<pc, toml, env, overrides, config, draft, stdout>>

NextKeys == call_get_server_setup

SpecKeys == InitKeys /\ [][NextKeys]_vars

-----------------------------------------------------------------------------
(* override_config applied to a draft *)

\* Configuration::default() before key material is attached
DefaultDraft ==
    [f \in BuilderFields |-> IF f = "server_setup" THEN None ELSE BuilderDefault[f]]

\* the drafts that differ from the defaults in at most n fields
RECURSIVE DraftsOf(_)
DraftsOf(n) ==
    IF n = 0 THEN {DefaultDraft}
    ELSE LET smaller == DraftsOf(n - 1)
         IN smaller \cup
            UNION { { [c EXCEPT ![f] = x] : x \in FieldValues(f) } :
                      <<c, f>> \in smaller \X Fields }

Drafts ==
    DraftsOf(MaxDiff)
    \cup { [c EXCEPT !["server_setup"] = Some(s)] :
             <<c, s>> \in DraftsOf(MaxDiff) \X ServerSetup_new }

Sources == UNION { SourcesOf(t, OptionNames(t), MaxSet) : t \in SourceTypes }

InitOverride ==
    /\ pc = "override"
    /\ fs = [p \in Paths |-> None]
    /\ fs0 = fs
    /\ overrides \in Sources
    /\ config \in Drafts
    /\ draft = config
    /\ Idle

apply_override ==
    /\ pc = "override"
    /\ config' = override_config(overrides, config)
    /\ pc' = "overridden"
    /\ UNCHANGED <<fs, fs0, toml, env, overrides, draft, calls, stdout, arg,
                   first, result>>

NextOverride == apply_override

SpecOverride == InitOverride /\ [][NextOverride]_vars

-----------------------------------------------------------------------------
(* Properties *)

Printed(line) == \E i \in 1..Len(stdout) : stdout[i] = line

\* the value override_config stores for the given option name of the source o
StoredValue(o, name) ==
    IF name = "verbose" THEN TRUE
    ELSE LET given == IF o.type \in {"RunOpts", "TestEmailOpts"}
                         /\ name \in SmtpOptNames
                      THEN o.smtp_opts[name] ELSE o[name]
         IN IF OptionTarget(name) \in MailboxFields THEN Some(Unwrap(given))
            ELSE Unwrap(given)

\* the options of the source o that are given and written to the field f
GivenFor(o, f) == { n \in GivenOptions(o) : OptionTarget(n) = f }

\* the errors of get_server_setup
KeyErrors ==
    {"Could not read key file", "invalid server setup",
     "Could not write the generated server setup"}

\* C1: when no file exists at "server_key" before init and the final key_file
\* is another path, init creates a key file only at the final key_file path
\* and there is still no file at "server_key" when it has returned.
C1_OnlyFinalPathCreated ==
    (pc = "init_done" /\ fs0["server_key"] = None
        /\ config["key_file"] # "server_key")
    => /\ fs["server_key"] = None
       /\ \A p \in Paths : fs[p] # fs0[p] => p = config["key_file"]

\* C2: in a run of init get_server_setup is invoked exactly once, after the
\* layers and the overrides were applied, with the final key_file.
C2_ResolvedExactlyOnce ==
    /\ pc \in {"init_figment", "init_override", "init_server_setup",
               "init_warnings", "init_done", "init_failed", "init_panicked"}
       => Len(calls) <= 1
    /\ pc = "init_done"
       => Len(calls) = 1 /\ calls[1].path = config["key_file"]

\* C3: every Configuration returned by init, by ConfigurationBuilder::build or
\* by Configuration::default has its server_setup present.
C3_ServerSetupPresent ==
    (pc \in {"init_done", "build_returned", "default_returned"} /\ result.ok)
    => result.v["server_setup"] # None

C3_Witness ==
    /\ pc = "init_done"
    /\ result.ok
    /\ result.v["server_setup"] # None

\* C4: every field of the Configuration init returns has the value of the
\* highest layer that sets it: override source, then environment, then TOML
\* file, then the compiled default.
C4_Precedence ==
    pc = "init_done" =>
    \A f \in Fields :
        IF GivenFor(overrides, f) # {}
        THEN \A n \in GivenFor(overrides, f) :
                result.v[f] = StoredValue(overrides, n)
        ELSE IF f \in DOMAIN env
        THEN /\ from_value(f, env[f]).ok
             /\ result.v[f] = from_value(f, env[f]).v
        ELSE IF toml.state = "parsed" /\ f \in DOMAIN toml.dict
        THEN /\ from_value(f, toml.dict[f]).ok
             /\ result.v[f] = from_value(f, toml.dict[f]).v
        ELSE result.v[f] = BuilderDefault[f]

\* the file, the environment and the options give http_port three different
\* values, none of them the default
C4_Witness ==
    /\ pc = "init_done"
    /\ toml.state = "parsed"
    /\ "http_port" \in DOMAIN toml.dict
    /\ "http_port" \in DOMAIN env
    /\ overrides.type = "RunOpts"
    /\ overrides.http_port # None
    /\ Cardinality({Payload(toml.dict["http_port"]), Payload(env["http_port"]),
                    Unwrap(overrides.http_port), BuilderDefault["http_port"]}) = 4
    /\ result.v["http_port"] = Unwrap(overrides.http_port)

\* C5: after a successful init a file exists at the final key_file and its
\* bytes deserialize to the ServerSetup attached to the returned Configuration.
C5_AttachedIsStored ==
    pc = "init_done" =>
    LET file == fs[result.v["key_file"]]
    IN /\ file # None
       /\ ServerSetup_deserialize(Unwrap(file)).ok
       /\ Some(ServerSetup_deserialize(Unwrap(file)).v) = result.v["server_setup"]

\* the file sets key_file to the default path, the environment to another one
\* at which the key is generated during init, while a key already exists at
\* the default path
C5_Witness ==
    /\ pc = "init_done"
    /\ toml.state = "parsed"
    /\ "key_file" \in DOMAIN toml.dict
    /\ "key_file" \in DOMAIN env
    /\ Payload(toml.dict["key_file"]) = "server_key"
    /\ result.v["key_file"] = "custom_key"
    /\ fs0["custom_key"] = None
    /\ fs0["server_key"] # None
    /\ fs["custom_key"] # fs["server_key"]

\* C6: a call of get_server_setup on a path that holds a file returns the
\* ServerSetup stored in the file, which is the one the first call on that path
\* returned, and leaves the file as it is; a file is written only at the path
\* of the call and only when no file exists there.
C6_StableOnExistingFile ==
    arg # None =>
    LET file_path == Unwrap(arg)
    IN /\ fs0[file_path] # None
          => /\ fs = fs0
             /\ result.ok
                => result = ServerSetup_deserialize(Unwrap(fs0[file_path]))
       /\ \A p \in Paths : fs[p] # fs0[p] => p = file_path /\ fs0[p] = None
       /\ result.ok
          => /\ first[file_path] = Some(result.v)
             /\ fs[file_path] # None
             /\ ServerSetup_deserialize(Unwrap(fs[file_path])) = result

\* a first call generated the key at a path and a later call read it back
C6_Witness ==
    /\ Len(calls) = MaxCalls
    /\ ~calls[1].existed
    /\ calls[MaxCalls].path = calls[1].path
    /\ calls[MaxCalls].existed
    /\ result.ok
    /\ first[calls[1].path] = Some(result.v)

\* C7: a failure of get_server_setup during init makes init return that error
\* and no Configuration; init does not end in any other way.
C7_KeyFailureIsErrResult ==
    (pc \in {"init_failed", "init_panicked"} /\ ~result.ok
        /\ result.err \in KeyErrors \cup {"panic"})
    => /\ pc = "init_failed"
       /\ result.err \in KeyErrors

\* C8 as stated: every field of MailOptions, enable_password_reset included,
\* has an SmtpOpts option that, given alone, replaces the field in the draft
\* and leaves all other fields unchanged.
C8_EveryMailFieldOverridable ==
    \A f \in MailFields :
        \E n \in SmtpOptNames : \E v \in OptionValues(n) :
            LET o == SetOption(EmptySource("SmtpOpts"), n, v)
                c == override_config(o, config)
            IN /\ c[f] # config[f]
               /\ c[f] = StoredValue(o, n)
               /\ \A g \in BuilderFields \ {f} : c[g] = config[g]

\* C8 amended: each of from, reply_to, server, port, user, password and
\* tls_required has an SmtpOpts option that, given alone, replaces the field
\* in the draft and leaves all other fields unchanged; no SmtpOpts changes
\* enable_password_reset.
C8_SevenMailFieldsOverridable ==
    /\ \A f \in MailFields \ {"smtp_options.enable_password_reset"} :
        \E n \in SmtpOptNames : \E v \in OptionValues(n) :
            LET o == SetOption(EmptySource("SmtpOpts"), n, v)
                c == override_config(o, config)
            IN /\ c[f] # config[f]
               /\ c[f] = StoredValue(o, n)
               /\ \A g \in BuilderFields \ {f} : c[g] = config[g]
    /\ \A o \in SourcesOf("SmtpOpts", SmtpOptNames, MaxSet) :
        override_config(o, config)["smtp_options.enable_password_reset"]
            = config["smtp_options.enable_password_reset"]
    /\ (pc = "overridden" /\ overrides.type = "SmtpOpts")
       => /\ \A n \in GivenOptions(overrides) :
                config[OptionTarget(n)] = StoredValue(overrides, n)
          /\ \A g \in BuilderFields :
                GivenFor(overrides, g) = {} => config[g] = draft[g]

C8_Witness ==
    /\ pc = "overridden"
    /\ overrides.type = "SmtpOpts"
    /\ GivenOptions(overrides) = {"smtp_user"}
    /\ config["smtp_options.user"] # draft["smtp_options.user"]
    /\ config["smtp_options.password"] = draft["smtp_options.password"]

\* C9: override_config leaves unchanged every field for which the source
\* carries no explicit value; a source with no option given leaves the whole
\* draft unchanged; verbose afterwards is verbose before or the source's
\* verbose flag.
C9_AbsentOverrideKeepsDraft ==
    pc = "overridden" =>
    /\ \A f \in BuilderFields :
          GivenFor(overrides, f) = {} => config[f] = draft[f]
    /\ GivenOptions(overrides) = {} => config = draft
    /\ config["verbose"] = (draft["verbose"] \/ GivenFor(overrides, "verbose") # {})

\* a draft with verbose set meets a source whose verbose flag is not set
C9_Witness ==
    /\ pc = "overridden"
    /\ draft["verbose"]
    /\ "verbose" \in OptionNames(overrides.type)
    /\ ~IsGiven(overrides, "verbose")
    /\ config["verbose"]

\* C10: a successful init prints the JWT warning exactly when the resolved
\* jwt_secret is "secretjwtsecret" and the password warning exactly when the
\* resolved ldap_user_pass is "password", whatever verbose is, and returns
\* the fields as they were after the overrides.
C10_Warnings ==
    pc = "init_done" =>
    /\ Printed(JwtWarning) <=> result.v["jwt_secret"] = "secretjwtsecret"
    /\ Printed(PasswordWarning) <=> result.v["ldap_user_pass"] = "password"
    /\ \A f \in Fields : result.v[f] = override_config(overrides, draft)[f]

\* only the password warning is printed, and verbose is off
C10_Witness ==
    /\ pc = "init_done"
    /\ ~result.v["verbose"]
    /\ result.v["jwt_secret"] # "secretjwtsecret"
    /\ ~Printed(JwtWarning)
    /\ Printed(PasswordWarning)

====
